---- MODULE Spec2Model ----
(***************************************************************************)
(* Model of the Mandelbrot renderers of jesper-olsen/mandelbrot-c:         *)
(*   src/mandelbrot_pthread.c  the parallel program (main, parse_arg,      *)
(*                             thread_mandelbrot, final_output)            *)
(*   src/mandelbrot.c          the sequential program (ascii_output,       *)
(*                             gptext_output), modelled as operators       *)
(*                                                                         *)
(* Numbers.  The C doubles are modelled by integers: every coordinate the  *)
(* model feeds to escape_time is an integer-valued double of small         *)
(* magnitude, and the loop only continues from a z with zr*zr+zi*zi <= 4,  *)
(* so every product, sum and quotient the code computes on them is an      *)
(* integer far below 2^53 and IEEE-754 arithmetic on them is exact.  The   *)
(* viewports are chosen so that x*fwidth/width and y*fheight/height are    *)
(* exact quotients.  Characters are modelled by their ASCII codes.         *)
(***************************************************************************)
EXTENDS Integers, Sequences, FiniteSets, TLC

\* ------------------------------------------------------------------ bounds
MaxThreads == 2      \* worker counts 1..MaxThreads (NUM_THREADS is a compile-time knob)
MaxWidth   == 2      \* widths 0..MaxWidth
MaxHeight  == 2      \* heights 0..MaxHeight
MaxIter    == 2      \* iteration budgets 1..MaxIter of the renders
MaxEvalIter == 3     \* iteration budgets 1..MaxEvalIter of the stepped escape_time
MaxCharIter == 12    \* cnt2char is tabulated for the budgets 1..MaxCharIter
MaxGridValue == 1000 \* the integer-to-string code is run on the values 0..MaxGridValue
CoordMax   == 2      \* the stepped escape_time runs on cr, ci in -CoordMax..CoordMax

\* ------------------------------------------------------- program constants
CHUNK_SIZE == 1      \* #define CHUNK_SIZE 1

\* Content of a cell of the malloc'ed result buffer that nothing has written.
Indeterminate == -1

VARIABLES
    \* --- the parallel program (mandelbrot_pthread.c)
    num_threads,     \* NUM_THREADS of this build
    argv,            \* the command-line arguments main has not parsed yet
    config,          \* Config config
    main_pc,         \* main's position
    main_i,          \* main's loop index i (create loop, join loop)
    result_buffer,   \* int *result_buffer: offset -> value, <<>> while not allocated
    global_next_y,   \* atomic_int global_next_y
    wpc,             \* each worker's position: "unborn", "claim", "row", "done"
    wy,              \* each worker's y (row loop variable)
    wyend,           \* each worker's y_end
    wx,              \* each worker's x (column loop variable)
    fy,              \* final_output's row loop variable y
    stdout,          \* the bytes written to standard output
    stderr,          \* the lines written to the diagnostic stream, by their kind
    freed,           \* free(result_buffer) has been called
    \* --- history of the parallel program
    claimed,         \* row -> workers whose fetch-and-add returned it, in order
    writes,          \* offset -> workers that wrote it, in order
    fmt_reads,       \* offsets final_output has read
    oob,             \* offsets outside the result buffer that workers wrote
    \* --- one call of escape_time, stepped through (specification SpecEval)
    e_pc, e_cr, e_ci, e_max, e_iter, e_zr, e_zi, e_ret,
    \* --- one run of the integer-to-string code, stepped through (SpecFormat)
    f_pc,            \* position in the code
    f_value,         \* the grid value read: row_start[x]
    f_iter,          \* int iter, initialised with that value
    f_token          \* the characters written through ptr so far

rvars == <<num_threads, argv, config, main_pc, main_i, result_buffer, global_next_y,
           wpc, wy, wyend, wx, fy, stdout, stderr, freed, claimed, writes, fmt_reads,
           oob>>
evars == <<e_pc, e_cr, e_ci, e_max, e_iter, e_zr, e_zi, e_ret>>
fvars == <<f_pc, f_value, f_iter, f_token>>
vars  == <<rvars, evars, fvars>>

Threads == 0 .. (num_threads - 1)

\* ------------------------------------------------------------- escape_time
\* The escape test of the loop: zr2 + zi2 > 4.0
\* (EscapedBad: the test written with >= in place of >)
EscapedBad(zr2, zi2) == zr2 + zi2 >= 4
Escaped(zr2, zi2) == zr2 + zi2 > 4

\* The loop condition: iter < max_iter
\* (LoopCondBad: the condition written with <= in place of <)
LoopCondBad(iter, max_iter) == iter <= max_iter
LoopCond(iter, max_iter) == iter < max_iter

\* double zr = 0.0, zi = 0.0: the start of the orbit of c
\* (ZInitBad: the orbit started at z = c)
ZInitBad(c) == c
ZInit(c) == 0

\* The value of iter when the for loop of escape_time is left.
RECURSIVE escape_loop(_, _, _, _, _, _)
escape_loop(cr, ci, max_iter, iter, zr, zi) ==
    IF ~LoopCond(iter, max_iter) THEN iter
    ELSE LET zr2 == zr * zr
             zi2 == zi * zi
         IN  IF Escaped(zr2, zi2) THEN iter
             ELSE escape_loop(cr, ci, max_iter, iter + 1,
                              zr2 - zi2 + cr, 2 * zr * zi + ci)

\* return max_iter - iter
EscapeReturn(max_iter, iter) == max_iter - iter

escape_time(cr, ci, max_iter) ==
    EscapeReturn(max_iter, escape_loop(cr, ci, max_iter, 0, ZInit(cr), ZInit(ci)))

\* ------------------------------------------------------------------ Config
\* Viewports of the model: the lower-left real bound and the upper imaginary
\* bound; the pixel pitch is 1 on both axes, so that ur_x = ll_x + width and
\* ll_y = ur_y - height and every pixel coordinate is an integer.
LLXs == {-2}
URYs == {1, 2}

\* The arguments main may still have to parse.  An argument is its key (the text
\* before '='), whether it holds an '=', and the number its value text denotes.
Arg(k, e, v) == [key |-> k, eq |-> e, val |-> v]
LastArgs == { Arg("png", TRUE, 1), Arg("png", TRUE, 0),
              Arg("foo", FALSE, 0), Arg("bogus", TRUE, 1) }

\* The command lines of the model (argv[1 .. argc-1]): an argument main
\* ignores, before or after one that sets a field.
ArgLists == { << Arg("png", TRUE, 1), Arg("foo", FALSE, 0) >>,
              << Arg("bogus", TRUE, 1), Arg("png", TRUE, 1) >>,
              << Arg("foo", FALSE, 0), Arg("png", TRUE, 0) >>,
              << Arg("png", TRUE, 0), Arg("bogus", TRUE, 1) >> }

\* atoi / atof of a value text that denotes the integer v
atoi(v) == v
atof(v) == v

\* the keys parse_arg compares arg with
KnownKeys == {"width", "height", "png", "ll_x", "ll_y", "ur_x", "ur_y", "max_iter"}

\* parse_arg(arg, config): what it writes to stderr, one entry per line
\* ("Warning: Ignoring invalid argument ..." or "Warning: Unknown parameter ...")
parse_arg_stderr(arg) ==
    IF ~arg.eq THEN <<"Warning">>
    ELSE IF arg.key \in KnownKeys THEN <<>>
    ELSE <<"Warning">>

\* parse_arg(arg, config): the Config it leaves behind
\* (parse_argBad: every argument with an '=' is taken for png)
parse_argBad(arg, c) ==
    IF ~arg.eq THEN c ELSE [c EXCEPT !.png = (atoi(arg.val) # 0)]
parse_arg(arg, c) ==
    IF ~arg.eq THEN c                                   \* strchr(arg, '=') == NULL
    ELSE IF arg.key = "width"    THEN [c EXCEPT !.width = atoi(arg.val)]
    ELSE IF arg.key = "height"   THEN [c EXCEPT !.height = atoi(arg.val)]
    ELSE IF arg.key = "png"      THEN [c EXCEPT !.png = (atoi(arg.val) # 0)]
    ELSE IF arg.key = "ll_x"     THEN [c EXCEPT !.ll_x = atof(arg.val)]
    ELSE IF arg.key = "ll_y"     THEN [c EXCEPT !.ll_y = atof(arg.val)]
    ELSE IF arg.key = "ur_x"     THEN [c EXCEPT !.ur_x = atof(arg.val)]
    ELSE IF arg.key = "ur_y"     THEN [c EXCEPT !.ur_y = atof(arg.val)]
    ELSE IF arg.key = "max_iter" THEN [c EXCEPT !.max_iter = atoi(arg.val)]
    ELSE c                                              \* unknown parameter

\* Pixel -> complex plane, as thread_mandelbrot, ascii_output and gptext_output
\* compute it (the quotients are exact for the viewports of the model).
fwidth(c)  == c.ur_x - c.ll_x
fheight(c) == c.ur_y - c.ll_y
RealOf(c, x) == c.ll_x + (x * fwidth(c)) \div c.width
ImagOf(c, y) == c.ur_y - (y * fheight(c)) \div c.height

\* the escape-time value of pixel (x, y)
PixelValue(c, x, y) == escape_time(RealOf(c, x), ImagOf(c, y), c.max_iter)

\* buffer[y * config->width + x]
\* (OffsetBad: the row stride left out)
OffsetBad(c, x, y) == y + x
Offset(c, x, y) == y * c.width + x

\* ------------------------------------------------------------------- Init
EvalIdle ==
    /\ e_pc = "idle" /\ e_cr = 0 /\ e_ci = 0 /\ e_max = 1
    /\ e_iter = 0 /\ e_zr = 0 /\ e_zi = 0 /\ e_ret = 0

ItoaIdle ==
    /\ f_pc = "idle" /\ f_value = 0 /\ f_iter = 0 /\ f_token = <<>>

Init ==
    /\ num_threads \in 1 .. MaxThreads
    /\ \E w \in 0 .. MaxWidth, h \in 0 .. MaxHeight, m \in 1 .. MaxIter,
          lx \in LLXs, uy \in URYs :
          config = [width |-> w, height |-> h, png |-> FALSE,
                    ll_x |-> lx, ll_y |-> uy - h, ur_x |-> lx + w, ur_y |-> uy,
                    max_iter |-> m]
    /\ argv \in ArgLists
    /\ \A k \in DOMAIN argv : argv[k] \in LastArgs
    /\ main_pc = "parse"
    /\ main_i = 0
    /\ result_buffer = <<>>
    /\ global_next_y = 0
    /\ wpc = [t \in Threads |-> "unborn"]
    /\ wy = [t \in Threads |-> 0]
    /\ wyend = [t \in Threads |-> 0]
    /\ wx = [t \in Threads |-> 0]
    /\ fy = 0
    /\ stdout = <<>>
    /\ stderr = <<>>
    /\ freed = FALSE
    /\ claimed = <<>>
    /\ writes = <<>>
    /\ fmt_reads = {}
    /\ oob = {}
    /\ EvalIdle
    /\ ItoaIdle

\* ------------------------------------------------------------------- main
\* for (i = 1; i < argc; ++i) parse_arg(argv[i], &config);
ParseArg ==
    /\ main_pc = "parse"
    /\ argv # <<>>
    /\ config' = parse_arg(Head(argv), config)
    /\ stderr' = stderr \o parse_arg_stderr(Head(argv))
    /\ argv' = Tail(argv)
    /\ UNCHANGED <<num_threads, main_pc, main_i, result_buffer, global_next_y, wpc,
                   wy, wyend, wx, fy, stdout, claimed, writes, fmt_reads, oob,
                   freed, evars, fvars>>

\* size_t total_pixels = config.width * config.height
total_pixels(c) == c.width * c.height

\* result_buffer = malloc(sizeof(int) * total_pixels), which succeeds
MallocOk ==
    /\ main_pc = "parse"
    /\ argv = <<>>
    /\ result_buffer' = [o \in 0 .. (total_pixels(config) - 1) |-> Indeterminate]
    /\ writes' = [o \in 0 .. (total_pixels(config) - 1) |-> <<>>]
    /\ claimed' = [y \in 0 .. (config.height - 1) |-> <<>>]
    /\ main_pc' = "create"
    /\ main_i' = 0
    /\ UNCHANGED <<num_threads, argv, config, global_next_y, wpc, wy, wyend, wx, fy,
                   stdout, fmt_reads, oob,
                   stderr, freed, evars, fvars>>

\* ... or fails: perror, return EXIT_FAILURE
\* (MallocFailSuccess: the failure is reported, the status returned is success)
\* (MallocFailLate: the pointer is tested only after the create loop)
MallocFailSuccess ==
    /\ main_pc = "parse"
    /\ argv = <<>>
    /\ stderr' = Append(stderr, "Failed to allocate result buffer")
    /\ main_pc' = "exit_success"
    /\ UNCHANGED <<num_threads, argv, config, main_i, result_buffer, global_next_y,
                   wpc, wy, wyend, wx, fy, stdout, claimed, writes, fmt_reads, oob,
                   freed, evars, fvars>>

MallocFailLate ==
    /\ main_pc = "create"
    /\ main_i >= num_threads
    /\ stderr' = Append(stderr, "Failed to allocate result buffer")
    /\ main_pc' = "exit_failure"
    /\ UNCHANGED <<num_threads, argv, config, main_i, result_buffer, global_next_y,
                   wpc, wy, wyend, wx, fy, stdout, claimed, writes, fmt_reads, oob,
                   freed, evars, fvars>>

MallocFail ==
    /\ main_pc = "parse"
    /\ argv = <<>>
    /\ stderr' = Append(stderr, "Failed to allocate result buffer")
    /\ main_pc' = "exit_failure"
    /\ UNCHANGED <<num_threads, argv, config, main_i, result_buffer, global_next_y,
                   wpc, wy, wyend, wx, fy, stdout, claimed, writes, fmt_reads, oob,
                   freed, evars, fvars>>

\* pthread_create(&threads[i], NULL, thread_mandelbrot, &args[i]), i = 0 .. NUM_THREADS-1
CreateThread ==
    /\ main_pc = "create"
    /\ main_i < num_threads
    /\ wpc' = [wpc EXCEPT ![main_i] = "claim"]
    /\ main_i' = main_i + 1
    /\ UNCHANGED <<num_threads, argv, config, main_pc, result_buffer, global_next_y,
                   wy, wyend, wx, fy, stdout, claimed, writes, fmt_reads, oob,
                   stderr, freed, evars, fvars>>

\* the create loop is left, the join loop is entered
CreateDone ==
    /\ main_pc = "create"
    /\ main_i >= num_threads
    /\ main_pc' = "join"
    /\ main_i' = 0
    /\ UNCHANGED <<num_threads, argv, config, result_buffer, global_next_y, wpc,
                   wy, wyend, wx, fy, stdout, claimed, writes, fmt_reads, oob,
                   stderr, freed, evars, fvars>>

\* pthread_join(threads[i], NULL) returns once thread i has terminated
\* (JoinReturnsAtOnce: a join that does not wait; JoinNeverReturns: a join that
\* waits for something that never happens)
JoinReturnsAtOnce(i) == TRUE
JoinNeverReturns(i) == FALSE
JoinReady(i) == wpc[i] = "done"

JoinThread ==
    /\ main_pc = "join"
    /\ main_i < num_threads
    /\ JoinReady(main_i)
    /\ main_i' = main_i + 1
    /\ UNCHANGED <<num_threads, argv, config, main_pc, result_buffer, global_next_y,
                   wpc, wy, wyend, wx, fy, stdout, claimed, writes, fmt_reads, oob,
                   stderr, freed, evars, fvars>>

\* ------------------------------------------------------- thread_mandelbrot
\* atomic_fetch_add(&global_next_y, n): the value returned and the value stored
\* (AtomicFetchAddBad: the value after the addition returned, as add-and-fetch)
\* (AtomicFetchAddTwice: the addend applied twice)
AtomicFetchAddBad(v, n) == [ret |-> v + n, new |-> v + n]
AtomicFetchAddTwice(v, n) == [ret |-> v, new |-> v + 2 * n]
AtomicFetchAdd(v, n) == [ret |-> v, new |-> v + n]

\* if (y_start >= config->height) break;
\* (NoMoreWorkBad: the test written with > in place of >=)
NoMoreWorkBad(y_start, c) == y_start > c.height
NoMoreWork(y_start, c) == y_start >= c.height

\* if (y_end > config->height) y_end = config->height;
ClipEnd(y_end, c) == IF y_end > c.height THEN c.height ELSE y_end

\* The condition of the column loop: x < config->width
\* (ColumnLoopCondShort: the loop stops one column early)
\* (ColumnLoopCondLong: the test written with <= in place of <)
ColumnLoopCondShort(x, c) == x < c.width - 1
ColumnLoopCondLong(x, c) == x <= c.width
ColumnLoopCond(x, c) == x < c.width

\* Where the two nested for loops stand once their conditions have been
\* evaluated from (y, x): at the write of pixel (y, x), or back at the claim.
RECURSIVE LoopPos(_, _, _, _)
LoopPos(c, y, x, y_end) ==
    IF ~(y < y_end) THEN [pc |-> "claim", y |-> y, x |-> x]
    ELSE IF ColumnLoopCond(x, c) THEN [pc |-> "row", y |-> y, x |-> x]
    ELSE LoopPos(c, y + 1, 0, y_end)

\* One turn of while (true): the fetch-and-add, the two tests on its result,
\* and the entry into the row loops.
Claim(t) ==
    /\ wpc[t] = "claim"
    /\ LET fa == AtomicFetchAdd(global_next_y, CHUNK_SIZE)
           y_start == fa.ret
           y_end == ClipEnd(y_start + CHUNK_SIZE, config)
           pos == LoopPos(config, y_start, 0, y_end)
       IN  /\ global_next_y' = fa.new
           /\ claimed' = IF y_start \in DOMAIN claimed
                         THEN [claimed EXCEPT ![y_start] = Append(@, t)]
                         ELSE claimed
           /\ IF NoMoreWork(y_start, config)
              THEN /\ wpc' = [wpc EXCEPT ![t] = "done"]
                   /\ UNCHANGED <<wy, wx, wyend>>
              ELSE /\ wpc' = [wpc EXCEPT ![t] = pos.pc]
                   /\ wy' = [wy EXCEPT ![t] = pos.y]
                   /\ wx' = [wx EXCEPT ![t] = pos.x]
                   /\ wyend' = [wyend EXCEPT ![t] = y_end]
    /\ UNCHANGED <<num_threads, argv, config, main_pc, main_i, result_buffer, fy,
                   stdout, writes, fmt_reads, oob,
                   stderr, freed, evars, fvars>>

\* buffer[y * config->width + x] = escape_time(real, imag, config->max_iter); ++x
WritePixel(t) ==
    /\ wpc[t] = "row"
    /\ LET off == Offset(config, wx[t], wy[t])
           pos == LoopPos(config, wy[t], wx[t] + 1, wyend[t])
       IN  /\ IF off \in DOMAIN result_buffer
              THEN /\ result_buffer' =
                        [result_buffer EXCEPT ![off] = PixelValue(config, wx[t], wy[t])]
                   /\ writes' = [writes EXCEPT ![off] = Append(@, t)]
                   /\ oob' = oob
              ELSE /\ oob' = oob \cup {off}      \* a write outside the buffer
                   /\ UNCHANGED <<result_buffer, writes>>
           /\ wpc' = [wpc EXCEPT ![t] = pos.pc]
           /\ wy' = [wy EXCEPT ![t] = pos.y]
           /\ wx' = [wx EXCEPT ![t] = pos.x]
    /\ UNCHANGED <<num_threads, argv, config, main_pc, main_i, global_next_y, wyend,
                   fy, stdout, claimed, fmt_reads,
                   stderr, freed, evars, fvars>>

\* ------------------------------------------------------------ final_output
CharZero    == 48    \* '0'
CharComma   == 44    \* ','
CharSpace   == 32    \* ' '
CharNewline == 10    \* '\n'

\* const char *symbols = "MW2a_. "
symbols == <<77, 87, 50, 97, 95, 46, 32>>

\* cnt2char: idx = (int)((double)value / max_iter * (ns - 1)).  For every budget
\* below 2000 the double expression equals the exact quotient rounded down.
\* (CharIndexBad: the scale ns in place of ns - 1)
CharIndexBad(value, max_iter) == (value * Len(symbols)) \div max_iter
CharIndex(value, max_iter) == (value * (Len(symbols) - 1)) \div max_iter

\* symbols[idx]: a symbol, or the string's terminating NUL at idx = ns
SymbolAt(idx) == IF idx + 1 \in DOMAIN symbols THEN symbols[idx + 1] ELSE 0

cnt2char(value, max_iter) == SymbolAt(CharIndex(value, max_iter))

\* the manual integer-to-string code: the bytes written for iter
Itoa(iter) ==
    IF iter >= 100
    THEN <<CharZero + (iter \div 100), CharZero + ((iter % 100) \div 10),
           CharZero + ((iter % 100) % 10)>>
    ELSE IF iter >= 10
    THEN <<CharZero + (iter \div 10), CharZero + (iter % 10)>>
    ELSE <<CharZero + iter>>

\* The row buffer of numeric mode for the values vals[0 .. n-1], without '\n'.
RECURSIVE NumericRow(_, _)
NumericRow(vals, n) ==
    IF n = 0 THEN <<>>
    ELSE NumericRow(vals, n - 1)
         \o (IF n - 1 > 0 THEN <<CharComma, CharSpace>> ELSE <<>>)
         \o Itoa(vals[n - 1])

\* The row buffer of ASCII mode for the values vals[0 .. n-1], without '\n'.
RECURSIVE AsciiRow(_, _, _)
AsciiRow(vals, n, max_iter) ==
    IF n = 0 THEN <<>>
    ELSE Append(AsciiRow(vals, n - 1, max_iter), cnt2char(vals[n - 1], max_iter))

\* What reading row y of the result buffer can yield: the cell's value, or any
\* value for a cell nothing has written.
RowReads(y) ==
    LET cols == 0 .. (config.width - 1)
        offs == [x \in cols |-> y * config.width + x]
    IN  IF \A x \in cols : offs[x] \in DOMAIN result_buffer
                           /\ result_buffer[offs[x]] # Indeterminate
        THEN { [x \in cols |-> result_buffer[offs[x]]] }
        ELSE { v \in [cols -> 0 .. config.max_iter] :
                 \A x \in cols :
                    (offs[x] \in DOMAIN result_buffer
                     /\ result_buffer[offs[x]] # Indeterminate)
                    => v[x] = result_buffer[offs[x]] }

\* The first row final_output emits.
FirstRow(c) == IF c.png THEN c.height - 1 ELSE 0

\* The join loop is left and final_output is entered: malloc(row_buffer_size)
\* succeeds and the row loop of the selected mode starts ...
FormatAllocOk ==
    /\ main_pc = "join"
    /\ main_i >= num_threads
    /\ main_pc' = "format"
    /\ fy' = FirstRow(config)
    /\ UNCHANGED <<num_threads, argv, config, main_i, result_buffer, global_next_y,
                   wpc, wy, wyend, wx, stdout, claimed, writes, fmt_reads, oob,
                   stderr, freed, evars, fvars>>

\* ... or fails: perror, exit(EXIT_FAILURE)
FormatAllocFail ==
    /\ main_pc = "join"
    /\ main_i >= num_threads
    /\ stderr' = Append(stderr, "Failed to allocate output buffer")
    /\ main_pc' = "exit_failure"
    /\ UNCHANGED <<num_threads, argv, config, main_i, result_buffer, global_next_y,
                   wpc, wy, wyend, wx, fy, stdout, claimed, writes, fmt_reads, oob,
                   freed, evars, fvars>>

\* One row of the numeric branch: for (y = height - 1; y >= 0; --y)
FormatNumericRow ==
    /\ main_pc = "format"
    /\ config.png
    /\ fy >= 0
    /\ \E vals \in RowReads(fy) :
          stdout' = stdout \o NumericRow(vals, config.width) \o <<CharNewline>>
    /\ fmt_reads' = fmt_reads \cup { fy * config.width + x : x \in 0 .. (config.width - 1) }
    /\ fy' = fy - 1
    /\ UNCHANGED <<num_threads, argv, config, main_pc, main_i, result_buffer,
                   global_next_y, wpc, wy, wyend, wx, claimed, writes, oob,
                   stderr, freed, evars, fvars>>

\* One row of the ASCII branch: for (y = 0; y < height; ++y)
FormatAsciiRow ==
    /\ main_pc = "format"
    /\ ~config.png
    /\ fy < config.height
    /\ \E vals \in RowReads(fy) :
          stdout' = stdout \o AsciiRow(vals, config.width, config.max_iter)
                           \o <<CharNewline>>
    /\ fmt_reads' = fmt_reads \cup { fy * config.width + x : x \in 0 .. (config.width - 1) }
    /\ fy' = fy + 1
    /\ UNCHANGED <<num_threads, argv, config, main_pc, main_i, result_buffer,
                   global_next_y, wpc, wy, wyend, wx, claimed, writes, oob,
                   stderr, freed, evars, fvars>>

\* The row loop is left: free(buffer), return to main
FormatDone ==
    /\ main_pc = "format"
    /\ IF config.png THEN fy < 0 ELSE fy >= config.height
    /\ main_pc' = "free"
    /\ UNCHANGED <<num_threads, argv, config, main_i, result_buffer, global_next_y,
                   wpc, wy, wyend, wx, fy, stdout, claimed, writes, fmt_reads, oob,
                   stderr, freed, evars, fvars>>

\* free(result_buffer); return EXIT_SUCCESS;
\* (FreeBeforeFormat: the buffer is freed after the join loop, before the call
\* of final_output)
FreeBeforeFormat ==
    /\ main_pc = "join"
    /\ main_i >= num_threads
    /\ ~freed
    /\ freed' = TRUE
    /\ UNCHANGED <<num_threads, argv, config, main_pc, main_i, result_buffer,
                   global_next_y, wpc, wy, wyend, wx, fy, stdout, claimed, writes,
                   fmt_reads, oob, stderr, evars, fvars>>

FreeResult ==
    /\ main_pc = "free"
    /\ freed' = TRUE
    /\ main_pc' = "exit_success"
    /\ UNCHANGED <<num_threads, argv, config, main_i, result_buffer, global_next_y,
                   wpc, wy, wyend, wx, fy, stdout, claimed, writes, fmt_reads, oob,
                   stderr, evars, fvars>>

\* ------------------------------------------------------------------- Spec
Next ==
    \/ ParseArg
    \/ MallocOk
    \/ MallocFail
    \/ CreateThread
    \/ CreateDone
    \/ JoinThread
    \/ \E t \in Threads : Claim(t)
    \/ \E t \in Threads : WritePixel(t)
    \/ FormatAllocOk
    \/ FormatAllocFail
    \/ FormatNumericRow
    \/ FormatAsciiRow
    \/ FormatDone
    \/ FreeResult

Spec == Init /\ [][Next]_vars

\* The steps of worker t, and the steps of the main thread.
Worker(t) == Claim(t) \/ WritePixel(t)
MainStep ==
    \/ ParseArg \/ MallocOk \/ MallocFail \/ CreateThread \/ CreateDone \/ JoinThread
    \/ FormatAllocOk \/ FormatAllocFail \/ FormatNumericRow \/ FormatAsciiRow
    \/ FormatDone \/ FreeResult

\* Fair scheduling: the operating system lets every thread that can take a step
\* take one eventually.
FairSpec ==
    /\ Spec
    /\ WF_vars(MainStep)
    /\ \A t \in 0 .. (MaxThreads - 1) : WF_vars(t \in Threads /\ Worker(t))

\* ------------------------------------------- one call of escape_time, stepped
\* The parallel program is not running in SpecEval.
RenderIdle ==
    /\ num_threads = 1
    /\ argv = <<>>
    /\ config = [width |-> 0, height |-> 0, png |-> FALSE, ll_x |-> 0, ll_y |-> 0,
                 ur_x |-> 0, ur_y |-> 0, max_iter |-> 1]
    /\ main_pc = "idle"
    /\ main_i = 0
    /\ result_buffer = <<>>
    /\ global_next_y = 0
    /\ wpc = [t \in Threads |-> "unborn"]
    /\ wy = [t \in Threads |-> 0]
    /\ wyend = [t \in Threads |-> 0]
    /\ wx = [t \in Threads |-> 0]
    /\ fy = 0
    /\ stdout = <<>>
    /\ stderr = <<>>
    /\ freed = FALSE
    /\ claimed = <<>>
    /\ writes = <<>>
    /\ fmt_reads = {}
    /\ oob = {}

\* escape_time(cr, ci, max_iter) is called: zr = 0.0, zi = 0.0, iter = 0
InitEval ==
    /\ RenderIdle
    /\ ItoaIdle
    /\ e_cr \in (-CoordMax) .. CoordMax
    /\ e_ci \in (-CoordMax) .. CoordMax
    /\ e_max \in 1 .. MaxEvalIter
    /\ e_pc = "loop"
    /\ e_iter = 0
    /\ e_zr = ZInit(e_cr)
    /\ e_zi = ZInit(e_ci)
    /\ e_ret = 0

\* The loop body runs to its end: no break, z <- z^2 + c, ++iter
EvalIter ==
    /\ e_pc = "loop"
    /\ LoopCond(e_iter, e_max)
    /\ ~Escaped(e_zr * e_zr, e_zi * e_zi)
    /\ e_zr' = e_zr * e_zr - e_zi * e_zi + e_cr
    /\ e_zi' = 2 * e_zr * e_zi + e_ci
    /\ e_iter' = e_iter + 1
    /\ UNCHANGED <<e_pc, e_cr, e_ci, e_max, e_ret, rvars, fvars>>

\* if (zr2 + zi2 > 4.0) break;
EvalBreak ==
    /\ e_pc = "loop"
    /\ LoopCond(e_iter, e_max)
    /\ Escaped(e_zr * e_zr, e_zi * e_zi)
    /\ e_pc' = "ret"
    /\ UNCHANGED <<e_cr, e_ci, e_max, e_iter, e_zr, e_zi, e_ret, rvars, fvars>>

\* iter < max_iter fails: the loop is left
EvalExit ==
    /\ e_pc = "loop"
    /\ ~LoopCond(e_iter, e_max)
    /\ e_pc' = "ret"
    /\ UNCHANGED <<e_cr, e_ci, e_max, e_iter, e_zr, e_zi, e_ret, rvars, fvars>>

\* return max_iter - iter
EvalReturn ==
    /\ e_pc = "ret"
    /\ e_ret' = EscapeReturn(e_max, e_iter)
    /\ e_pc' = "done"
    /\ UNCHANGED <<e_cr, e_ci, e_max, e_iter, e_zr, e_zi, rvars, fvars>>

NextEval ==
    \/ EvalIter
    \/ EvalBreak
    \/ EvalExit
    \/ EvalReturn

SpecEval == InitEval /\ [][NextEval]_vars

\* The operator the render uses and the stepped call return the same value.
EvalAgrees ==
    e_pc = "done" => e_ret = escape_time(e_cr, e_ci, e_max)

\* ------------------------- the integer-to-string code of numeric mode, stepped
\* int iter = row_start[x]; ptr stands at the start of the token
InitFormat ==
    /\ RenderIdle
    /\ EvalIdle
    /\ f_value \in 0 .. MaxGridValue
    /\ f_iter = f_value
    /\ f_token = <<>>
    /\ f_pc = "itoa"

\* if (iter >= 100): three characters, iter %= 100 in between
ItoaHundreds ==
    /\ f_pc = "itoa"
    /\ f_iter >= 100
    /\ f_iter' = f_iter % 100
    /\ f_token' = f_token \o <<CharZero + (f_iter \div 100), CharZero + (f_iter' \div 10),
                               CharZero + (f_iter' % 10)>>
    /\ f_pc' = "done"
    /\ UNCHANGED <<f_value, rvars, evars>>

\* else if (iter >= 10): two characters
ItoaTens ==
    /\ f_pc = "itoa"
    /\ ~(f_iter >= 100)
    /\ f_iter >= 10
    /\ f_token' = f_token \o <<CharZero + (f_iter \div 10), CharZero + (f_iter % 10)>>
    /\ f_pc' = "done"
    /\ UNCHANGED <<f_value, f_iter, rvars, evars>>

\* else: one character
ItoaUnits ==
    /\ f_pc = "itoa"
    /\ ~(f_iter >= 100)
    /\ ~(f_iter >= 10)
    /\ f_token' = f_token \o <<CharZero + f_iter>>
    /\ f_pc' = "done"
    /\ UNCHANGED <<f_value, f_iter, rvars, evars>>

NextFormat ==
    \/ ItoaHundreds
    \/ ItoaTens
    \/ ItoaUnits

SpecFormat == InitFormat /\ [][NextFormat]_vars

\* The operator the render uses and the stepped code write the same characters.
ItoaAgrees ==
    f_pc = "done" => f_token = Itoa(f_value)

\* ------------------------------------ the sequential program (mandelbrot.c)
\* The values of the pixels of row y, as the row loops of mandelbrot.c compute them.
RowValues(c, y) == [x \in 0 .. (c.width - 1) |-> PixelValue(c, x, y)]

\* ascii_output from row y on: for (y = 0; y < height; ++y) { putchar ...; putchar('\n') }
RECURSIVE ascii_from(_, _)
ascii_from(c, y) ==
    IF ~(y < c.height) THEN <<>>
    ELSE AsciiRow(RowValues(c, y), c.width, c.max_iter) \o <<CharNewline>>
         \o ascii_from(c, y + 1)

ascii_output(c) == ascii_from(c, 0)

\* gptext_output from row y on: for (y = height; y > 0; --y) { ...; fwrite }.  The
\* early flush of a nearly full buffer splits the fwrite and leaves the bytes as
\* they are.
RECURSIVE gptext_from(_, _)
gptext_from(c, y) ==
    IF ~(y > 0) THEN <<>>
    ELSE NumericRow(RowValues(c, y), c.width) \o <<CharNewline>>
         \o gptext_from(c, y - 1)

gptext_output(c) == gptext_from(c, c.height)

\* main of mandelbrot.c: what it writes to standard output
sequential_main(c) == IF c.png THEN gptext_output(c) ELSE ascii_output(c)

\* ------------------------------------------------ the render with one worker
\* The rows y .. y_end-1 written into buf, as the row loops of one worker do.
RECURSIVE WriteRows(_, _, _, _, _)
WriteRows(c, buf, y, x, y_end) ==
    LET pos == LoopPos(c, y, x, y_end)
        off == Offset(c, pos.x, pos.y)
    IN  IF pos.pc = "claim" THEN buf
        ELSE WriteRows(c,
                       IF off \in DOMAIN buf
                       THEN [buf EXCEPT ![off] = PixelValue(c, pos.x, pos.y)]
                       ELSE buf,
                       pos.y, pos.x + 1, y_end)

\* thread_mandelbrot run by a sole worker from cursor value next_y on buffer buf:
\* the buffer it leaves when it returns.
RECURSIVE OneWorker(_, _, _)
OneWorker(c, next_y, buf) ==
    LET fa == AtomicFetchAdd(next_y, CHUNK_SIZE)
    IN  IF NoMoreWork(fa.ret, c) THEN buf
        ELSE OneWorker(c, fa.new,
                       WriteRows(c, buf, fa.ret, 0, ClipEnd(fa.ret + CHUNK_SIZE, c)))

OneWorkerGrid(c) ==
    OneWorker(c, 0, [o \in 0 .. (total_pixels(c) - 1) |-> Indeterminate])

\* ----------------------------------------------------------------- helpers
AllWorkersDone == \A t \in Threads : wpc[t] = "done"
Joined == main_pc \in {"format", "free", "exit_success"}
              \/ (main_pc = "join" /\ main_i >= num_threads)
Rows == 0 .. (config.height - 1)

\* ------------------------------------------------------------------ claims

\* C1: once all workers have terminated, every row index in [0, height) has
\* been claimed by exactly one worker; and at no time has a row been claimed
\* twice.
PartitionComplete ==
    /\ \A y \in DOMAIN claimed : Len(claimed[y]) <= 1
    /\ AllWorkersDone
          => (DOMAIN claimed = Rows /\ \A y \in Rows : Len(claimed[y]) = 1)

\* C1 witness: two workers have terminated after sharing two rows, the later
\* worker having taken the first row.
PartitionCompleteWitness ==
    /\ num_threads >= 2 /\ config.height >= 2
    /\ main_pc = "join" /\ AllWorkersDone
    /\ claimed[0] = <<1>> /\ claimed[1] = <<0>>

\* C2: every offset of the PixelGrid is written at most once, by at most one
\* worker, and two workers never stand at writes of the same offset.
DisjointWrites ==
    /\ \A o \in DOMAIN writes : Len(writes[o]) <= 1
    /\ \A t1, t2 \in Threads :
          (t1 # t2 /\ wpc[t1] = "row" /\ wpc[t2] = "row")
             => Offset(config, wx[t1], wy[t1]) # Offset(config, wx[t2], wy[t2])

\* C2 witness: two workers are inside their rows at once, each having written
\* a cell and about to write the next.
DisjointWritesWitness ==
    /\ num_threads >= 2 /\ config.width >= 2 /\ config.height >= 2
    /\ wpc[0] = "row" /\ wpc[1] = "row" /\ wx[0] = 1 /\ wx[1] = 1
    /\ writes[Offset(config, 0, wy[0])] = <<0>>
    /\ writes[Offset(config, 0, wy[1])] = <<1>>

\* C3: final_output has read no cell and standard output holds no byte unless
\* every one of the workers has terminated.
JoinBeforeFormat ==
    (main_pc = "format" \/ fmt_reads # {} \/ stdout # <<>>) => AllWorkersDone

\* C3 witness: the formatter has read a row and written it, after two workers
\* rendered.
JoinBeforeFormatWitness ==
    /\ num_threads >= 2 /\ main_pc = "format"
    /\ fmt_reads # {} /\ stdout # <<>>
    /\ \E o \in DOMAIN writes : writes[o] = <<1>>

\* C4: once main has passed the join, the PixelGrid is, cell for cell, the one
\* the render with one worker produces, whatever the worker count and the
\* interleaving.
WorkerCountInvariance ==
    Joined => result_buffer = OneWorkerGrid(config)

\* C4 witness: main is past the join of two workers that both wrote cells, on a
\* grid whose cells are not all equal.
WorkerCountInvarianceWitness ==
    /\ num_threads >= 2 /\ main_pc = "format"
    /\ \E o1, o2 \in DOMAIN writes :
          /\ writes[o1] = <<0>> /\ writes[o2] = <<1>>
          /\ result_buffer[o1] # result_buffer[o2]

\* C5: for the same inputs the parallel program writes the bytes the sequential
\* program writes, in both output modes.
SequentialParallelSameOutput ==
    main_pc = "exit_success" => stdout = sequential_main(config)

\* C6: under fair scheduling, once main starts launching workers every worker
\* terminates and main passes the join of all of them; and a worker that has
\* been launched and has not terminated can always take its next step.
RenderTerminates ==
    /\ (main_pc = "create")
          ~> (main_pc = "join" /\ main_i >= num_threads /\ AllWorkersDone)
    /\ [](\A t \in Threads : wpc[t] \in {"claim", "row"} => ENABLED Worker(t))

\* C6 witness: main has passed the join of two workers that rendered a grid of
\* two rows.
RenderTerminatesWitness ==
    /\ num_threads >= 2 /\ config.height >= 2 /\ config.width >= 1
    /\ main_pc = "join" /\ main_i >= num_threads /\ AllWorkersDone
    /\ \A o \in DOMAIN writes : writes[o] # <<>>

\* ------------------------------------------------------- the orbit of c
\* The least k in 0 .. n for which the iterate z_k of z <- z^2 + c, z_0 = (zr, zi)
\* taken as iterate number k0, has squared magnitude above 4; n + 1 when there
\* is none.  (Iterates after the first such one are not computed.)
RECURSIVE FirstEscapeFrom(_, _, _, _, _, _)
FirstEscapeFrom(cr, ci, zr, zi, k0, n) ==
    IF k0 > n THEN n + 1
    ELSE IF zr * zr + zi * zi > 4 THEN k0
    ELSE FirstEscapeFrom(cr, ci, zr * zr - zi * zi + cr, 2 * zr * zi + ci, k0 + 1, n)

FirstEscape(cr, ci, n) == FirstEscapeFrom(cr, ci, 0, 0, 0, n)

\* none of the iterates z_lo .. z_hi has squared magnitude above 4 (lo <= 1:
\* z_0 = 0 never has)
NoEscapeWithin(cr, ci, hi) == FirstEscape(cr, ci, hi) > hi

\* C7: escape_time returns max_iter minus the number of iterations performed,
\* and the result lies in [0, max_iter].
EscapeTimeBounds ==
    /\ e_pc \in {"ret", "done"} => (0 <= e_iter /\ e_iter <= e_max)
    /\ e_pc = "done" => (e_ret = e_max - e_iter /\ 0 <= e_ret /\ e_ret <= e_max)

\* C7 witness: a call has returned a value strictly between 0 and max_iter - 1
\* after leaving the loop by break in its third turn.
EscapeTimeBoundsWitness ==
    e_pc = "done" /\ e_max = 3 /\ e_iter = 2 /\ e_ret = 1

\* C8 as stated: the result is 0 exactly when none of z_1 .. z_max_iter has
\* squared magnitude above 4, and c = 0 yields 0.
ZeroIffNoEscapeThroughMaxIter ==
    e_pc = "done" =>
       /\ (e_ret = 0) <=> NoEscapeWithin(e_cr, e_ci, e_max)
       /\ (e_cr = 0 /\ e_ci = 0) => e_ret = 0

\* C8 amended: the result is 0 exactly when none of the iterates the loop tests,
\* z_0 .. z_(max_iter - 1), has squared magnitude above 4, and c = 0 yields 0.
ZeroIffNoEscapeTested ==
    e_pc = "done" =>
       /\ (e_ret = 0) <=> NoEscapeWithin(e_cr, e_ci, e_max - 1)
       /\ (e_cr = 0 /\ e_ci = 0) => e_ret = 0

\* C8 witness: a call has returned 0 although the last iterate it computed,
\* z_max_iter, has squared magnitude above 4.
ZeroIffNoEscapeTestedWitness ==
    /\ e_pc = "done" /\ e_ret = 0 /\ e_max >= 2
    /\ FirstEscape(e_cr, e_ci, e_max) = e_max

\* C9: escape_time(2.0, 2.0, max_iter) leaves the loop with iter = 1, z_1 being
\* the first iterate of squared magnitude above 4, and returns max_iter - 1.
KnownEscapingPoint ==
    (e_pc = "done" /\ e_cr = 2 /\ e_ci = 2) =>
       /\ e_iter = 1
       /\ FirstEscape(2, 2, e_max) = 1
       /\ e_ret = e_max - 1

\* C9 witness: the call on (2, 2) with budget 3 has returned.
KnownEscapingPointWitness ==
    e_pc = "done" /\ e_cr = 2 /\ e_ci = 2 /\ e_max = 3 /\ e_ret = 2

\* ------------------------------------------------------ reading the output
\* The newline-terminated lines of a byte stream, each without its newline;
\* bytes after the last newline are left out.
RECURSIVE LinesFrom(_, _, _)
LinesFrom(bytes, i, cur) ==
    IF i > Len(bytes) THEN <<>>
    ELSE IF bytes[i] = CharNewline
         THEN <<cur>> \o LinesFrom(bytes, i + 1, <<>>)
         ELSE LinesFrom(bytes, i + 1, Append(cur, bytes[i]))

Lines(bytes) == LinesFrom(bytes, 1, <<>>)

\* The number of comma-separated values of a line.
ValueCount(line) ==
    IF line = <<>> THEN 0
    ELSE 1 + Cardinality({i \in 1 .. Len(line) : line[i] = CharComma})

\* C10: in numeric mode the parallel program has written, when it exits,
\* exactly height lines of exactly width comma-separated values, line k holding
\* the values of row index height - k + 1 (rows height down to 1).
NumericRowsHeightDownToOne ==
    (main_pc = "exit_success" /\ config.png) =>
       /\ Len(Lines(stdout)) = config.height
       /\ \A k \in 1 .. Len(Lines(stdout)) :
             /\ ValueCount(Lines(stdout)[k]) = config.width
             /\ Lines(stdout)[k]
                   = NumericRow(RowValues(config, config.height - k + 1), config.width)

\* The index cnt2char computes lies in [0, ns - 1] for every value in
\* [0, max_iter], and value 0 gets the first symbol: for the budgets
\* 1 .. MaxCharIter and for the default budget of 255.
CharIndexInRange ==
    \A m \in (1 .. MaxCharIter) \cup {255} : \A v \in 0 .. m :
        /\ CharIndex(v, m) \in 0 .. (Len(symbols) - 1)
        /\ cnt2char(v, m) \in {symbols[i] : i \in DOMAIN symbols}
        /\ cnt2char(0, m) = symbols[1]

\* C11: in ASCII mode the parallel program has written, when it exits, exactly
\* height newline-terminated lines of exactly width characters, line k holding
\* the symbols of row index k - 1 (top to bottom), every character one of the 7
\* symbols; and for every value in [0, max_iter] the index of cnt2char lies in
\* [0, 6], value 0 getting the first symbol.
AsciiOutputShape ==
    /\ CharIndexInRange
    /\ \A v \in 0 .. config.max_iter :
          CharIndex(v, config.max_iter) \in 0 .. (Len(symbols) - 1)
    /\ (main_pc = "exit_success" /\ ~config.png) =>
          /\ Len(stdout) = config.height * (config.width + 1)
          /\ Len(Lines(stdout)) = config.height
          /\ \A k \in 1 .. Len(Lines(stdout)) :
                /\ Len(Lines(stdout)[k]) = config.width
                /\ \A i \in 1 .. Len(Lines(stdout)[k]) :
                      Lines(stdout)[k][i] \in {symbols[j] : j \in DOMAIN symbols}
                /\ Lines(stdout)[k]
                      = AsciiRow(RowValues(config, k - 1), config.width, config.max_iter)

\* C11 witness: an ASCII render of two rows of two pixels has exited, its two
\* lines differing.
AsciiOutputShapeWitness ==
    /\ main_pc = "exit_success" /\ ~config.png
    /\ config.width = 2 /\ config.height = 2
    /\ Len(Lines(stdout)) = 2
    /\ Lines(stdout)[1] # Lines(stdout)[2]

\* an argument without '=' or with a key parse_arg does not know
Ignored(arg) == ~arg.eq \/ arg.key \notin KnownKeys

\* C12: an argument without '=' and an argument with an unknown key each leave
\* every field of the configuration unchanged and do not abort the run: main
\* stays in its argument loop and goes on with the next argument, whatever was
\* parsed before.
IgnoredArgLeavesConfig ==
    [][ (main_pc = "parse" /\ argv # <<>> /\ Ignored(Head(argv)))
            => /\ config' = config
               /\ main_pc' = "parse"
               /\ argv' = Tail(argv) ]_vars

\* C12 witness: a run whose command line held png=1 and one ignored argument
\* has warned once, and has rendered and formatted in numeric mode.
IgnoredArgLeavesConfigWitness ==
    /\ main_pc = "exit_success"
    /\ stderr = <<"Warning">>
    /\ config.png
    /\ config.height = 2 /\ config.width = 2
    /\ Len(Lines(stdout)) = 2

\* the allocation failures perror has reported
AllocFailures ==
    { k \in DOMAIN stderr : stderr[k] \in {"Failed to allocate result buffer",
                                           "Failed to allocate output buffer"} }
ResultBufferFailed ==
    \E k \in DOMAIN stderr : stderr[k] = "Failed to allocate result buffer"
RowBufferFailed ==
    \E k \in DOMAIN stderr : stderr[k] = "Failed to allocate output buffer"

\* C13, as the specification states it: the program exits with a failure
\* status only when the allocation of the result buffer has failed.
FailureOnlyFromResultBuffer ==
    main_pc = "exit_failure" => ResultBufferFailed

\* C13, amended: the program exits with a failure status exactly when the
\* allocation of the result buffer (main) or of the row buffer (final_output)
\* has failed, and with success in every other run that ends.
FailureIffAllocationFailed ==
    /\ main_pc = "exit_failure" => (ResultBufferFailed \/ RowBufferFailed)
    /\ main_pc = "exit_success" => AllocFailures = {}
    /\ AllocFailures # {} => main_pc = "exit_failure"

\* C13 witness: a run has ended with a failure status after all its workers
\* rendered the grid, the row buffer of final_output being the allocation that
\* failed.
FailureIffAllocationFailedWitness ==
    /\ main_pc = "exit_failure"
    /\ RowBufferFailed /\ ~ResultBufferFailed
    /\ config.height = 2 /\ config.width = 2
    /\ AllWorkersDone

\* C14: a run that ends with a failure status has written no byte to standard
\* output, and once the allocation of the result buffer has failed no worker
\* has been launched or is ever launched: no row is claimed, no cell written.
NoPartialSuccess ==
    /\ main_pc = "exit_failure" => stdout = <<>>
    /\ ResultBufferFailed =>
          /\ \A t \in Threads : wpc[t] = "unborn"
          /\ ~(ENABLED CreateThread)
          /\ global_next_y = 0
          /\ result_buffer = <<>>
          /\ stdout = <<>>

\* C14 witness: the allocation of the result buffer for a grid of two rows has
\* failed in a build of two workers, and the run has ended.
NoPartialSuccessWitness ==
    /\ main_pc = "exit_failure"
    /\ ResultBufferFailed
    /\ num_threads = 2 /\ config.height = 2 /\ config.width = 2

\* final_output has read every cell and written every row
FormatComplete ==
    /\ fmt_reads = DOMAIN result_buffer
    /\ Len(Lines(stdout)) = config.height

\* C15: the result buffer is freed only after all workers have terminated and
\* final_output has returned, and once it is freed no worker writes a cell and
\* the formatter reads none.
ReleaseAfterUse ==
    /\ [](freed => AllWorkersDone /\ FormatComplete /\ main_pc = "exit_success")
    /\ [][ (~freed /\ freed') => (AllWorkersDone /\ main_pc = "free" /\ FormatComplete) ]_vars
    /\ [][ freed => UNCHANGED <<result_buffer, writes, oob, fmt_reads, stdout>> ]_vars

\* C15 witness: the buffer of a grid of two rows of two pixels is freed, after
\* two workers wrote its cells and the formatter read them.
ReleaseAfterUseWitness ==
    /\ freed
    /\ config.height = 2 /\ config.width = 2
    /\ \E o1, o2 \in DOMAIN writes : writes[o1] = <<0>> /\ writes[o2] = <<1>>
    /\ fmt_reads = 0 .. 3

\* C16: once main has joined all workers, and so when the formatter starts to
\* read, every offset in [0, width*height) has been written exactly once, with
\* the escape-time value of pixel (offset mod width, offset div width); every
\* cell the formatter has read had been written by a worker.
GridWrittenBeforeRead ==
    /\ Joined =>
          /\ DOMAIN result_buffer = 0 .. (config.width * config.height - 1)
          /\ \A o \in DOMAIN result_buffer :
                /\ Len(writes[o]) = 1
                /\ result_buffer[o]
                      = PixelValue(config, o % config.width, o \div config.width)
    /\ \A o \in fmt_reads :
          /\ o \in DOMAIN result_buffer
          /\ Len(writes[o]) = 1
          /\ result_buffer[o] # Indeterminate

\* C16 witness: the formatter has read the first row it prints of a grid of
\* two rows of two pixels that two workers wrote.
GridWrittenBeforeReadWitness ==
    /\ main_pc = "format"
    /\ config.height = 2 /\ config.width = 2
    /\ Cardinality(fmt_reads) = 2
    /\ \E o1, o2 \in DOMAIN writes : writes[o1] = <<0>> /\ writes[o2] = <<1>>

\* C17: the work cursor is 0 as long as no worker has been launched, and every
\* step either leaves it unchanged or is one worker's fetch-and-add that
\* increases it by exactly the chunk size: it never decreases, is never reset.
CursorMonotone ==
    /\ []((\A t \in Threads : wpc[t] = "unborn") => global_next_y = 0)
    /\ [][ global_next_y' # global_next_y =>
              /\ global_next_y' = global_next_y + CHUNK_SIZE
              /\ \E t \in Threads : Claim(t) ]_vars

\* C17 witness: the cursor has been advanced three times, by two workers that
\* claimed one row each.
CursorMonotoneWitness ==
    /\ global_next_y = 3
    /\ config.height = 2
    /\ DOMAIN claimed = {0, 1}
    /\ Len(claimed[0]) = 1 /\ Len(claimed[1]) = 1
    /\ claimed[0] # claimed[1]

\* C18: a worker whose fetch-and-add returns a start index >= height stops
\* without writing a cell and never claims again; every pixel a worker is about
\* to write has 0 <= y < height and 0 <= x < width, its offset y*width+x lies
\* inside [0, width*height), and no write has gone outside the buffer.
WorkerStopsAtHeight ==
    /\ [](/\ oob = {}
          /\ \A t \in Threads : wpc[t] = "row" =>
                /\ 0 <= wy[t] /\ wy[t] < config.height
                /\ 0 <= wx[t] /\ wx[t] < config.width
                /\ Offset(config, wx[t], wy[t]) \in 0 .. (config.width * config.height - 1)
                /\ Offset(config, wx[t], wy[t]) \in DOMAIN result_buffer)
    /\ [][ \A t \in Threads :
              (Claim(t) /\ global_next_y >= config.height) =>
                  /\ wpc'[t] = "done"
                  /\ result_buffer' = result_buffer
                  /\ writes' = writes ]_vars
    /\ [][ \A t \in Threads : wpc[t] = "done" =>
              /\ wpc'[t] = "done"
              /\ \A o \in DOMAIN writes : Len(writes'[o]) > Len(writes[o]) =>
                    writes'[o][Len(writes'[o])] # t ]_vars

\* C18 witness: in a build of two workers, one worker has stopped on its first
\* claim without having written a cell, the other having claimed both rows of
\* the grid.
WorkerStopsAtHeightWitness ==
    /\ num_threads = 2 /\ config.height = 2 /\ config.width = 2
    /\ wpc[1] = "done"
    /\ \A o \in DOMAIN writes : writes[o] = <<0>>
    /\ DOMAIN writes = 0 .. 3

\* the workers that have terminated, and the rows claimed so far
DoneWorkers == { t \in Threads : wpc[t] = "done" }
ClaimedRows == { y \in DOMAIN claimed : claimed[y] # <<>> }

\* C20: every worker makes exactly one unsuccessful claim, its last step, so
\* the work cursor counts the rows claimed plus the workers that have stopped:
\* it is at most height + N in every reachable state, and exactly height + N
\* once all N workers have terminated.
CursorBound ==
    /\ global_next_y = Cardinality(ClaimedRows) + Cardinality(DoneWorkers)
    /\ global_next_y <= config.height + num_threads
    /\ AllWorkersDone => global_next_y = config.height + num_threads

\* C20 witness: two workers have terminated on a grid of two rows, the cursor
\* standing at 4.
CursorBoundWitness ==
    /\ num_threads = 2 /\ config.height = 2
    /\ AllWorkersDone
    /\ global_next_y = 4

\* the characters '0' .. '9', and the number a string of them denotes
IsDigit(ch) == ch \in CharZero .. (CharZero + 9)
RECURSIVE DecimalValue(_)
DecimalValue(token) ==
    IF token = <<>> THEN 0
    ELSE 10 * DecimalValue(SubSeq(token, 1, Len(token) - 1))
         + (token[Len(token)] - CharZero)

\* C19: every token of numeric mode is the decimal representation of the grid
\* value it stands for: the characters the integer-to-string code writes for a
\* value v in [0, max_iter] are decimal digits and denote v.
TokenDecodesBack ==
    f_pc = "done" =>
        /\ f_token # <<>>
        /\ \A k \in DOMAIN f_token : IsDigit(f_token[k])
        /\ DecimalValue(f_token) = f_value

\* escape_time stays below its budget: for the coordinates and budgets of the
\* model it returns a value in [0, max_iter - 1].
EscapeBelowBudget ==
    \A cr \in (-CoordMax) .. CoordMax, ci \in (-CoordMax) .. CoordMax,
       m \in 1 .. MaxEvalIter :
        escape_time(cr, ci, m) \in 0 .. (m - 1)

\* For a value below the budget cnt2char computes an index of at most ns - 2
\* and returns a symbol that is not the last one: for the budgets
\* 1 .. MaxCharIter and for the default budget of 255.
IndexBelowLast ==
    \A m \in (1 .. MaxCharIter) \cup {255} : \A v \in 0 .. (m - 1) :
        /\ CharIndex(v, m) <= Len(symbols) - 2
        /\ cnt2char(v, m) # symbols[Len(symbols)]

\* C21: escape_time never returns max_iter itself, so every value a worker has
\* written to the grid lies in [0, max_iter - 1], the index cnt2char computes
\* for it is at most 5, and ASCII mode never writes the last symbol of the
\* gradient, the space.
NeverFullBudget ==
    /\ EscapeBelowBudget
    /\ IndexBelowLast
    /\ \A o \in DOMAIN result_buffer :
          result_buffer[o] # Indeterminate =>
              /\ result_buffer[o] \in 0 .. (config.max_iter - 1)
              /\ CharIndex(result_buffer[o], config.max_iter) <= 5
    /\ ~config.png => \A k \in DOMAIN stdout : stdout[k] # CharSpace

\* C21 witness: an ASCII render with budget 2 of two rows of two pixels has
\* exited, a cell of its grid holding max_iter - 1, the largest value there is.
NeverFullBudgetWitness ==
    /\ main_pc = "exit_success" /\ ~config.png
    /\ config.width = 2 /\ config.height = 2 /\ config.max_iter = 2
    /\ \E o \in DOMAIN result_buffer : result_buffer[o] = config.max_iter - 1
    /\ Len(stdout) = 6

====
